---- MODULE Spec2Model ----
(***************************************************************************)
(* Model of SNData.csp.dr1._data_parsing: access to the locally cached     *)
(* tables and spectra of the CSP DR1 data release.                         *)
(*                                                                         *)
(* Strings are sequences of one-character strings, so that lstrip, split,  *)
(* slicing, glob matching and float parsing are computed as Python         *)
(* computes them.  Numbers are integers.                                   *)
(***************************************************************************)
EXTENDS Integers, Sequences, FiniteSets, TLC

VARIABLES available, spectra, tables, call, gen, yielded, loads

vars == <<available, spectra, tables, call, gen, yielded, loads>>

(***************************************************************************)
(* Bounds                                                                  *)
(***************************************************************************)
MaxFiles == 2

(***************************************************************************)
(* Python string primitives                                                *)
(***************************************************************************)
CharsOf(s) == {s[i] : i \in DOMAIN s}

RECURSIVE LStrip(_, _)
LStrip(s, chars) ==
    IF s = <<>> \/ Head(s) \notin chars THEN s ELSE LStrip(Tail(s), chars)

RECURSIVE SplitAcc(_, _, _, _)
SplitAcc(s, sep, cur, acc) ==
    IF s = <<>> THEN Append(acc, cur)
    ELSE IF Head(s) = sep THEN SplitAcc(Tail(s), sep, <<>>, Append(acc, cur))
    ELSE SplitAcc(Tail(s), sep, Append(cur, Head(s)), acc)

Split(s, sep) == SplitAcc(s, sep, <<>>, <<>>)

Slice(s, from) == SubSeq(s, from + 1, Len(s))

StartsWith(s, p) == Len(s) >= Len(p) /\ SubSeq(s, 1, Len(p)) = p

EndsWith(s, p) == Len(s) >= Len(p) /\ SubSeq(s, Len(s) - Len(p) + 1, Len(s)) = p

DigitVal ==
    "0" :> 0 @@ "1" :> 1 @@ "2" :> 2 @@ "3" :> 3 @@ "4" :> 4 @@
    "5" :> 5 @@ "6" :> 6 @@ "7" :> 7 @@ "8" :> 8 @@ "9" :> 9

DigitChar == <<"0", "1", "2", "3", "4", "5", "6", "7", "8", "9">>

RECURSIVE DigitsValue(_, _)
DigitsValue(s, acc) ==
    IF s = <<>> THEN acc ELSE DigitsValue(Tail(s), 10 * acc + DigitVal[Head(s)])

IsDigits(s) == s # <<>> /\ \A i \in DOMAIN s : s[i] \in DOMAIN DigitVal

\* float(text) / int(text): an optional sign and decimal digits, else ValueError
ParseNumber(s) ==
    IF IsDigits(s) THEN [ok |-> TRUE, val |-> DigitsValue(s, 0)]
    ELSE IF s # <<>> /\ Head(s) = "-" /\ IsDigits(Tail(s))
         THEN [ok |-> TRUE, val |-> 0 - DigitsValue(Tail(s), 0)]
    ELSE [ok |-> FALSE, val |-> 0]

RECURSIVE FormatInt(_)
FormatInt(n) ==
    IF n < 10 THEN <<DigitChar[n + 1]>>
    ELSE FormatInt(n \div 10) \o <<DigitChar[(n % 10) + 1]>>

\* Path.stem: the file name without its last suffix
RECURSIVE LastDot(_, _)
LastDot(s, i) == IF i = 0 THEN 0 ELSE IF s[i] = "." THEN i ELSE LastDot(s, i - 1)

Stem(name) ==
    LET d == LastDot(name, Len(name))
    IN  IF d <= 1 THEN name ELSE SubSeq(name, 1, d - 1)

Perms(S) ==
    {p \in [1..Cardinality(S) -> S] :
        \A i, j \in 1..Cardinality(S) : i # j => p[i] # p[j]}

(***************************************************************************)
(* The local store: spectral files and published tables                    *)
(***************************************************************************)
DotDat == <<".", "d", "a", "t">>
SNPrefix == <<"S", "N">>
TablePrefix == <<"t", "a", "b", "l", "e">>

LblRedshift == <<"R", "e", "d", "s", "h", "i", "f", "t", ":", " ">>
LblMax == <<"J", "D", "a", "t", "e", "_", "o", "f", "_", "m", "a", "x", ":", " ">>
LblObs == <<"J", "D", "a", "t", "e", "_", "o", "f", "_", "o", "b", "s", "e", "r",
            "v", "a", "t", "i", "o", "n", ":", " ">>
LblEpoch == <<"E", "p", "o", "c", "h", ":", " ">>

Header(z, m, d, e) ==
    << <<"#">>, LblRedshift \o z, LblMax \o m, LblObs \o d, LblEpoch \o e >>

SpecName(suffix, rest) == SNPrefix \o suffix \o rest \o DotDat

Sfx05a == <<"0", "5", "a">>
Sfx06b == <<"0", "6", "b">>
SfxN1 == <<"N", "1">>

RestXOpt == <<"_", "x", "_", "o", "p", "t", "_", "T", "1", "_", "I", "1">>
RestYIr == <<"_", "y", "_", "i", "r", "_", "T", "2", "_", "I", "2">>
RestShort == <<"_", "o", "p", "t", "_", "T", "1", "_", "I", "1">>

Row(w, f) == [wavelength |-> w, flux |-> f]

\* Seven files.  rows is the table the reader returns for the file; the third
\* file has its column line and no data rows.  Every row has a wavelength of
\* its own, so that a row of an aggregated table tells the file it came from.
\* The sixth file has a four-token stem, the seventh a header cut short.

FileUniverse ==
    { [name |-> SpecName(Sfx05a, RestXOpt),
       comments |-> Header(<<"1">>, <<"5">>, <<"1", "0">>, <<"-", "1">>),
       rows |-> <<Row(11, 1), Row(12, 2)>>],
      [name |-> SpecName(Sfx05a, RestYIr),
       comments |-> Header(<<"2">>, <<"6">>, <<"2", "0">>, <<"3">>),
       rows |-> <<Row(21, 1)>>],
      [name |-> SpecName(Sfx06b, RestXOpt),
       comments |-> Header(<<"3">>, <<"7">>, <<"3", "0">>, <<"4">>),
       rows |-> <<>>],
      [name |-> SpecName(Sfx06b, RestYIr),
       comments |-> Header(<<"3">>, <<"7">>, <<"4", "0">>, <<"8">>),
       rows |-> <<Row(41, 1)>>],
      [name |-> SpecName(SfxN1, RestXOpt),
       comments |-> Header(<<"4">>, <<"9">>, <<"5", "0">>, <<"6">>),
       rows |-> <<Row(51, 1)>>],
      [name |-> SpecName(Sfx05a, RestShort),
       comments |-> Header(<<"1">>, <<"5">>, <<"6", "0">>, <<"2">>),
       rows |-> <<Row(61, 1)>>],
      [name |-> SpecName(Sfx06b, <<"_", "z", "_", "o", "p", "t", "_", "T", "1", "_", "I", "2">>),
       comments |-> << <<"#">>, LblRedshift \o <<"3">>, LblMax \o <<"7">> >>,
       rows |-> <<Row(71, 1)>>] }

TableNumUniverse == {1, 2}
TableArgs == {1, 2, 3}

TableFile(n) == TablePrefix \o FormatInt(n) \o DotDat

Id(suffix) == <<"2", "0">> \o suffix

IdArgs == {Id(Sfx05a), Id(Sfx06b), Id(SfxN1), Id(<<"1">>), Id(<<"5", "0", "z", "z">>)}

(***************************************************************************)
(* Results                                                                 *)
(***************************************************************************)
NoErr == "None"

NoCall == [op |-> "none", arg |-> <<>>, err |-> NoErr, ret |-> <<>>, trace |-> <<>>]

EmptyMeta == [set |-> FALSE, redshift |-> 0, JDate_of_max |-> 0, obj_id |-> <<>>]

\* Table(names=[...], dtype=[...]): the seven columns and no rows
EmptyTable == [rows |-> <<>>, meta |-> EmptyMeta]

(***************************************************************************)
(* Collaborators and Python truth values                                   *)
(***************************************************************************)
\* _data_download._raise_for_data: fails when the local data is not fetched
raise_for_data == IF available THEN NoErr ELSE "DataUnavailable"

\* utils.build_pbar(iterable, verbose): the iterable, optionally decorated
build_pbar(ids) == ids

\* bool(table_path.exists): the bound method itself, never called
PathExistsTruthy(path) == TRUE

\* bool(meta.spectra_dir.rglob(...)): a generator object, whatever it yields
RglobTruthy(matching) == TRUE

\* a glob pattern <prefix>*<suffix> against a file name
GlobMatch(name, prefix, suffix) ==
    /\ Len(name) >= Len(prefix) + Len(suffix)
    /\ StartsWith(name, prefix)
    /\ EndsWith(name, suffix)

(***************************************************************************)
(* get_available_tables                                                    *)
(***************************************************************************)
TableFiles == {t \in tables : GlobMatch(t, TablePrefix, DotDat)}

get_available_tables(order) ==
    [i \in DOMAIN order |->
        ParseNumber(LStrip(Stem(order[i]), CharsOf(TablePrefix))).val]

GetAvailableTables ==
    /\ \E order \in Perms(TableFiles) :
         call' = [op |-> "get_available_tables", arg |-> <<>>, err |-> NoErr,
                  ret |-> get_available_tables(order), trace |-> <<"rglob">>]
    /\ UNCHANGED <<available, spectra, tables, gen, yielded, loads>>

(***************************************************************************)
(* load_table                                                              *)
(***************************************************************************)
load_table(table_num) ==
    LET table_path == TableFile(table_num)
        result(err, ret, trace) ==
            [op |-> "", arg |-> 0, err |-> err, ret |-> ret, trace |-> trace]
    IN  IF raise_for_data # NoErr
        THEN result(raise_for_data, <<>>, <<"_raise_for_data">>)
        ELSE IF ~PathExistsTruthy(table_path)
        THEN result("ValueError", <<>>, <<"_raise_for_data">>)
        ELSE IF table_path \notin tables
        THEN result("FileNotFoundError", <<>>, <<"_raise_for_data", "ascii.read">>)
        ELSE result(NoErr, <<table_path>>, <<"_raise_for_data", "ascii.read">>)

LoadTable ==
    /\ \E n \in TableArgs :
         call' = [load_table(n) EXCEPT !.op = "load_table", !.arg = n]
    /\ UNCHANGED <<available, spectra, tables, gen, yielded, loads>>

(***************************************************************************)
(* get_available_ids                                                       *)
(***************************************************************************)
IdOfFile(name) == <<"2", "0">> \o LStrip(Split(name, "_")[1], CharsOf(SNPrefix))

IdSet == {IdOfFile(f.name) : f \in {g \in spectra : GlobMatch(g.name, SNPrefix, DotDat)}}

\* list(set(ids)): the distinct ids in the set's iteration order
ListOfSet(S) == Perms(S)

get_available_ids ==
    IF raise_for_data # NoErr
    THEN [err |-> raise_for_data, rets |-> {<<>>}, trace |-> <<"_raise_for_data">>]
    ELSE [err |-> NoErr, rets |-> ListOfSet(IdSet), trace |-> <<"_raise_for_data", "glob">>]

GetAvailableIds ==
    /\ \E ids \in get_available_ids.rets :
         call' = [op |-> "get_available_ids", arg |-> <<>>, err |-> get_available_ids.err,
                  ret |-> ids, trace |-> get_available_ids.trace]
    /\ UNCHANGED <<available, spectra, tables, gen, yielded, loads>>

(***************************************************************************)
(* get_data_for_id                                                         *)
(***************************************************************************)
Matching(obj_id) ==
    {f \in spectra : GlobMatch(f.name, SNPrefix \o Slice(obj_id, 2) \o <<"_">>, DotDat)}

\* float(file_comments[i].lstrip(label))
HeaderField(comments, i, label) ==
    IF Len(comments) < i + 1 THEN [err |-> "IndexError", val |-> 0]
    ELSE LET p == ParseNumber(LStrip(comments[i + 1], CharsOf(label)))
         IN  IF p.ok THEN [err |-> NoErr, val |-> p.val]
             ELSE [err |-> "ValueError", val |-> 0]

\* an unpacking that is off by one token
StemTokensShifted(stem) ==
    LET t == Split(stem, "_")
    IN  IF Len(t) # 5 THEN [err |-> "ValueError", wrange |-> <<>>,
                            telescope |-> <<>>, instrument |-> <<>>]
        ELSE [err |-> NoErr, wrange |-> t[2], telescope |-> t[3], instrument |-> t[4]]

\* _, _, wrange, telescope, instrument = f.stem.split('_')
StemTokens(stem) ==
    LET t == Split(stem, "_")
    IN  IF Len(t) # 5 THEN [err |-> "ValueError", wrange |-> <<>>,
                            telescope |-> <<>>, instrument |-> <<>>]
        ELSE [err |-> NoErr, wrange |-> t[3], telescope |-> t[4], instrument |-> t[5]]

\* the table of one file with its five broadcast columns added
Tagged(rows, obs_date, epoch, tok) ==
    [i \in DOMAIN rows |->
        [date |-> obs_date, wavelength |-> rows[i].wavelength, flux |-> rows[i].flux,
         epoch |-> epoch, wavelength_range |-> tok.wrange,
         telescope |-> tok.telescope, instrument |-> tok.instrument]]

\* an aggregator that keeps only the table of the file read last
VStackOverwrite(out_rows, file_rows) == file_rows

VStack(out_rows, file_rows) == out_rows \o file_rows

\* the first exception raised by the statements of the loop body, in order
FirstErr(errs) ==
    IF \A i \in DOMAIN errs : errs[i] = NoErr THEN NoErr
    ELSE errs[CHOOSE i \in DOMAIN errs :
                  errs[i] # NoErr /\ \A j \in 1..(i - 1) : errs[j] = NoErr]

\* the loop body after its reads: the file's table with the columns added
FileTable(rows, redshift, max_date, obs_date, epoch, tok, err) ==
    [err |-> err, redshift |-> redshift.val, max_date |-> max_date.val,
     rows |-> IF err = NoErr THEN Tagged(rows, obs_date.val, epoch.val, tok)
              ELSE <<>>]

FileFields(rows, redshift, max_date, obs_date, epoch, tok) ==
    FileTable(rows, redshift, max_date, obs_date, epoch, tok,
              FirstErr(<<redshift.err, max_date.err, obs_date.err, epoch.err, tok.err>>))

\* one pass of the loop body over file f
ReadFile(f) ==
    FileFields(f.rows,
               HeaderField(f.comments, 1, LblRedshift),
               HeaderField(f.comments, 2, LblMax),
               HeaderField(f.comments, 3, LblObs),
               HeaderField(f.comments, 4, LblEpoch),
               StemTokens(Stem(f.name)))

\* the loop over the files; locals = the loop's bindings of redshift, max_date
RECURSIVE Aggregate(_, _, _)
AggregateOne(files, out_rows, locals, r) ==
    IF r.err # NoErr
    THEN [err |-> r.err, rows |-> out_rows, locals |-> locals]
    ELSE Aggregate(Tail(files), VStack(out_rows, r.rows),
                   [bound |-> TRUE, redshift |-> r.redshift, max_date |-> r.max_date])

Aggregate(files, out_rows, locals) ==
    IF files = <<>> THEN [err |-> NoErr, rows |-> out_rows, locals |-> locals]
    ELSE AggregateOne(files, out_rows, locals, ReadFile(Head(files)))

Unbound == [bound |-> FALSE, redshift |-> 0, max_date |-> 0]

\* the statements after the loop: attach the meta data and return
Finish(obj_id, a, tr) ==
    IF a.err # NoErr THEN [err |-> a.err, table |-> EmptyTable, trace |-> tr]
    ELSE IF ~a.locals.bound
    THEN [err |-> "UnboundLocalError", table |-> EmptyTable, trace |-> tr]
    ELSE [err |-> NoErr, trace |-> tr,
          table |-> [rows |-> a.rows,
                     meta |-> [set |-> TRUE, redshift |-> a.locals.redshift,
                               JDate_of_max |-> a.locals.max_date,
                               obj_id |-> obj_id]]]

get_data_for_id(obj_id, files) ==
    IF raise_for_data # NoErr
    THEN [err |-> raise_for_data, table |-> EmptyTable, trace |-> <<"_raise_for_data">>]
    ELSE IF ~RglobTruthy(files)
    THEN [err |-> "ValueError", table |-> EmptyTable,
          trace |-> <<"_raise_for_data", "rglob">>]
    ELSE Finish(obj_id, Aggregate(files, EmptyTable.rows, Unbound),
                <<"_raise_for_data", "rglob">>)

Returned(op, arg, r) ==
    [op |-> op, arg |-> arg, err |-> r.err, ret |-> r.table, trace |-> r.trace]

GetDataForId ==
    /\ \E obj_id \in IdArgs : \E files \in Perms(Matching(obj_id)) :
         call' = Returned("get_data_for_id", obj_id, get_data_for_id(obj_id, files))
    /\ UNCHANGED <<available, spectra, tables, gen, yielded, loads>>

(***************************************************************************)
(* iter_data: a generator.  pc is the generator's position:                *)
(*   idle       no generator exists                                        *)
(*   TypeError  the call could not bind its arguments                      *)
(*   created    created, body not yet started                              *)
(*   starting   first next(): about to evaluate get_available_ids()        *)
(*   running    inside next(), at the head of the for loop                 *)
(*   suspended  at the yield                                               *)
(*   done       the loop ended (StopIteration)                             *)
(*   failed     an exception left the body                                 *)
(***************************************************************************)
NoFilter == [supplied |-> FALSE, ids |-> {}]

Filters ==
    {NoFilter, [supplied |-> TRUE, ids |-> {Id(Sfx05a)}],
     [supplied |-> TRUE, ids |-> {Id(Sfx06b), Id(SfxN1)}]}

\* def iter_data(verbose=False)
IterDataParams == {"verbose"}

Keywords(filter) == IF filter.supplied THEN {"filter_func"} ELSE {}

NoGen == [pc |-> "idle", filter |-> NoFilter, ids |-> <<>>, pos |-> 0,
          advLoads |-> 0, err |-> NoErr]

\* a driver that yields every loaded table
TableTruthyAlways(table) == TRUE

\* if data_table: a table is true when it has rows
TableTruthy(table) == Len(table.rows) > 0

\* a loop that walks the ids from the end
NextIdReversed(ids, pos) == ids[Len(ids) - pos]

\* the id the for loop binds at position pos (0-based)
NextId(ids, pos) == ids[pos + 1]

IterData ==
    /\ \E filter \in Filters :
         gen' = [NoGen EXCEPT !.filter = filter,
                              !.pc = IF Keywords(filter) \subseteq IterDataParams
                                     THEN "created" ELSE "TypeError"]
    /\ yielded' = <<>>
    /\ loads' = <<>>
    /\ UNCHANGED <<available, spectra, tables, call>>

\* the consumer calls next() on the generator
Pull ==
    /\ gen.pc \in {"created", "suspended"}
    /\ gen' = [gen EXCEPT !.pc = IF gen.pc = "created" THEN "starting" ELSE "running",
                          !.advLoads = 0]
    /\ UNCHANGED <<available, spectra, tables, call, yielded, loads>>

\* iterable = utils.build_pbar(get_available_ids(), verbose)
IterBegin ==
    /\ gen.pc = "starting"
    /\ \E ids \in get_available_ids.rets :
         gen' = IF get_available_ids.err # NoErr
                THEN [gen EXCEPT !.pc = "failed", !.err = get_available_ids.err]
                ELSE [gen EXCEPT !.pc = "running", !.ids = build_pbar(ids), !.pos = 0]
    /\ UNCHANGED <<available, spectra, tables, call, yielded, loads>>

\* the loop body: r is what get_data_for_id(id_val) returned or raised
LoopBody(id_val, r) ==
    /\ loads' = Append(loads, [id |-> id_val, err |-> r.err,
                               nrows |-> Len(r.table.rows)])
    /\ gen' = [gen EXCEPT
                 !.pos = gen.pos + 1,
                 !.advLoads = gen.advLoads + 1,
                 !.err = r.err,
                 !.pc = IF r.err # NoErr THEN "failed"
                        ELSE IF TableTruthy(r.table) THEN "suspended"
                        ELSE "running"]
    /\ yielded' = IF r.err = NoErr /\ TableTruthy(r.table)
                  THEN Append(yielded, r.table) ELSE yielded

\* one turn of the for loop: exhaust, or load the next id and yield or go on
IterStep ==
    /\ gen.pc = "running"
    /\ IF gen.pos >= Len(gen.ids)
       THEN /\ gen' = [gen EXCEPT !.pc = "done"]
            /\ UNCHANGED <<yielded, loads>>
       ELSE \E files \in Perms(Matching(NextId(gen.ids, gen.pos))) :
              LoopBody(NextId(gen.ids, gen.pos),
                       get_data_for_id(NextId(gen.ids, gen.pos), files))
    /\ UNCHANGED <<available, spectra, tables, call>>

(***************************************************************************)
(* Specification                                                           *)
(***************************************************************************)
Stores == {S \in SUBSET FileUniverse : Cardinality(S) <= MaxFiles}

Init ==
    /\ available \in BOOLEAN
    /\ spectra \in Stores
    /\ tables \in SUBSET {TableFile(n) : n \in TableNumUniverse}
    /\ ~available => spectra = {} /\ tables = {}
    /\ call = NoCall
    /\ gen = NoGen
    /\ yielded = <<>>
    /\ loads = <<>>

Next ==
    \/ GetAvailableTables
    \/ LoadTable
    \/ GetAvailableIds
    \/ GetDataForId
    \/ IterData
    \/ Pull
    \/ IterBegin
    \/ IterStep

Spec == Init /\ [][Next]_vars

(***************************************************************************)
(* Reference notions used by the properties                                *)
(***************************************************************************)
\* the text of a header line after its label, when the line has that label
AfterLabel(line, label) == SubSeq(line, Len(label) + 1, Len(line))

HasField(comments, i, label) ==
    /\ Len(comments) >= i + 1
    /\ StartsWith(comments[i + 1], label)
    /\ ParseNumber(AfterLabel(comments[i + 1], label)).ok

FieldValue(comments, i, label) == ParseNumber(AfterLabel(comments[i + 1], label)).val

\* SN<suffix>_<unused>_<wavelength_range>_<telescope>_<instrument>.dat with
\* the four header lines Redshift, JDate_of_max, JDate_of_observation, Epoch
WellFormed(f) ==
    /\ HasField(f.comments, 1, LblRedshift)
    /\ HasField(f.comments, 2, LblMax)
    /\ HasField(f.comments, 3, LblObs)
    /\ HasField(f.comments, 4, LblEpoch)
    /\ Len(Split(Stem(f.name), "_")) = 5

\* <suffix> of a file named SN<suffix>_...
SuffixOf(name) == Slice(Split(name, "_")[1], Len(SNPrefix))

RECURSIVE SumRows(_)
SumRows(S) ==
    IF S = {} THEN 0
    ELSE LET f == CHOOSE g \in S : TRUE IN Len(f.rows) + SumRows(S \ {f})

\* the file a row was read from (wavelengths are distinct across FileUniverse)
FilesOfRow(row) ==
    {f \in spectra : \E j \in DOMAIN f.rows :
        f.rows[j].wavelength = row.wavelength /\ f.rows[j].flux = row.flux}

Ord ==
    "0" :> 48 @@ "1" :> 49 @@ "2" :> 50 @@ "3" :> 51 @@ "4" :> 52 @@
    "5" :> 53 @@ "6" :> 54 @@ "7" :> 55 @@ "8" :> 56 @@ "9" :> 57 @@
    "N" :> 78 @@ "S" :> 83 @@ "a" :> 97 @@ "b" :> 98 @@ "z" :> 122

\* Python's s <= t on strings
RECURSIVE StrLeq(_, _)
StrLeq(s, t) ==
    IF s = <<>> THEN TRUE
    ELSE IF t = <<>> THEN FALSE
    ELSE IF Head(s) # Head(t) THEN Ord[Head(s)] < Ord[Head(t)]
    ELSE StrLeq(Tail(s), Tail(t))

IdsCall == call.op = "get_available_ids" /\ call.err = NoErr
LoadCall == call.op = "get_data_for_id"
LoadOk == LoadCall /\ call.err = NoErr

(***************************************************************************)
(* Properties                                                              *)
(***************************************************************************)
\* C1: iter_data(filter_func=P) gives a sequence, and every table it yields
\* satisfies P (here P(table) = table.meta['obj_id'] in P.ids).
C1_FilterCorrect ==
    gen.pc # "idle" /\ gen.filter.supplied =>
        /\ gen.pc # "TypeError"
        /\ \A i \in DOMAIN yielded : yielded[i].meta.obj_id \in gen.filter.ids

\* C2: with the data available and no file matching SN<suffix>_*.dat,
\* get_data_for_id fails with the 'No data found' ValueError and no other error.
C2_ObjectNotFound ==
    LoadCall /\ available /\ Matching(call.arg) = {} => call.err = "ValueError"

\* C3: with the data not available, each of get_available_tables,
\* get_available_ids, load_table and get_data_for_id fails with DataUnavailable
\* before it scans or reads the store.
C3_Unavailable ==
    ~available /\ call.op # "none" =>
        /\ call.err = "DataUnavailable"
        /\ call.trace = <<"_raise_for_data">>

\* C4: every table yielded by iter_data has at least one row.
C4_NoEmptyYield == \A i \in DOMAIN yielded : Len(yielded[i].rows) >= 1

C4_Witness ==
    /\ gen.pc = "suspended"
    /\ \E i \in DOMAIN loads : loads[i].err = NoErr /\ loads[i].nrows = 0
    /\ yielded # <<>>

\* C5: the table returned by get_data_for_id has as many rows as the files
\* matching the id have together, and it is returned whenever at least one
\* file matches and the matching files are well formed.
C5_RowCount ==
    LoadCall /\ available =>
        /\ call.err = NoErr => Len(call.ret.rows) = SumRows(Matching(call.arg))
        /\ (Matching(call.arg) # {} /\ \A f \in Matching(call.arg) : WellFormed(f))
               => call.err = NoErr

C5_Witness ==
    /\ LoadOk
    /\ Cardinality(Matching(call.arg)) = 2
    /\ Len(call.ret.rows) = 3

\* C6: get_available_ids returns its ids in non-decreasing order.
C6_Sorted ==
    IdsCall => \A i \in 1..(Len(call.ret) - 1) : StrLeq(call.ret[i], call.ret[i + 1])

\* C7: with the data available and no file table<N>.dat, load_table(N) fails
\* with the 'Table N is not available.' ValueError before the table reader runs.
C7_TableNotFound ==
    call.op = "load_table" /\ available /\ TableFile(call.arg) \notin tables =>
        /\ call.err = "ValueError"
        /\ \A i \in DOMAIN call.trace : call.trace[i] # "ascii.read"

\* C8: get_available_ids returns exactly the ids "20" + <suffix> of the files
\* SN<suffix>_*.dat, the suffix unchanged, each id once.
C8_IdsExact ==
    IdsCall =>
        /\ {call.ret[i] : i \in DOMAIN call.ret} =
               {Id(SuffixOf(f.name)) :
                    f \in {g \in spectra : GlobMatch(g.name, SNPrefix, DotDat)}}
        /\ \A i, j \in DOMAIN call.ret : i # j => call.ret[i] # call.ret[j]

\* C9: every row of the table returned by get_data_for_id has the observation
\* date and epoch of the header of the file it was read from, and the 3rd, 4th
\* and 5th tokens of that file's name stem as wavelength_range, telescope and
\* instrument.
C9_Provenance ==
    LoadOk =>
        \A i \in DOMAIN call.ret.rows :
            LET row == call.ret.rows[i]
            IN  /\ FilesOfRow(row) \cap Matching(call.arg) # {}
                /\ \A f \in FilesOfRow(row) :
                     /\ row.date = FieldValue(f.comments, 3, LblObs)
                     /\ row.epoch = FieldValue(f.comments, 4, LblEpoch)
                     /\ row.wavelength_range = Split(Stem(f.name), "_")[3]
                     /\ row.telescope = Split(Stem(f.name), "_")[4]
                     /\ row.instrument = Split(Stem(f.name), "_")[5]

C9_Witness ==
    /\ LoadOk
    /\ \E i, j \in DOMAIN call.ret.rows :
         /\ call.ret.rows[i].wavelength_range # call.ret.rows[j].wavelength_range
         /\ call.ret.rows[i].date # call.ret.rows[j].date
         /\ call.ret.rows[i].epoch < 0

\* the ids loaded so far are the first ids of the enumerator's output, in order
LoadsInOrder ==
    /\ Len(loads) = gen.pos
    /\ \A i \in DOMAIN loads : loads[i].id = gen.ids[i]
    /\ \A i, j \in DOMAIN loads : i # j => loads[i].id # loads[j].id

\* C10 as stated: an advance that yields has made exactly one get_data_for_id
\* call, and ids are loaded in the enumerator's order, each at most once.
C10_OneLoadPerAdvance ==
    /\ gen.pc = "suspended" => gen.advLoads = 1
    /\ LoadsInOrder

\* C10 amended: an advance loads consecutive ids in the enumerator's order,
\* from the next unloaded id up to the first whose table has rows, which it
\* yields, or whose load raises, which ends the sequence; ids are loaded in
\* order, each at most once, only inside an advance.
C10_LoadsUntilYield ==
    /\ [](/\ LoadsInOrder
          /\ gen.advLoads <= Len(loads)
          /\ \A i \in (Len(loads) - gen.advLoads + 1)..Len(loads) :
                /\ (loads[i].err # NoErr) <=> (gen.pc = "failed" /\ i = Len(loads))
                /\ (loads[i].nrows > 0) <=> (gen.pc = "suspended" /\ i = Len(loads))
          /\ gen.pc = "suspended" =>
                /\ gen.advLoads >= 1
                /\ yielded # <<>>
                /\ yielded[Len(yielded)].meta.obj_id = loads[Len(loads)].id)
    /\ [][Len(loads') > Len(loads) =>
              /\ gen.pc = "running"
              /\ Len(loads') = Len(loads) + 1
              /\ gen'.advLoads = gen.advLoads + 1]_vars

C10_Witness == gen.pc = "suspended" /\ gen.advLoads = 2

====
